---- MODULE Spec2Model ----
(***************************************************************************)
(* A model of the WARC recorder of fairuse/warc:                           *)
(*   - the rotating record writer (recordWriter), its producers            *)
(*     (recorder.rawResponseCallback) and rotator.Close, specification     *)
(*     Spec;                                                               *)
(*   - the capturing HTTP client built by foo() in transport.go, with its  *)
(*     connection wrapper, redirect check and capture callback,            *)
(*     specification SpecT.                                                *)
(***************************************************************************)
EXTENDS Integers, Sequences, FiniteSets, TLC

(* ------------------------------ bounds --------------------------------- *)

\* number of goroutines that call rawResponseCallback concurrently
NumProducers == 2

\* number of calls of rawResponseCallback they make in all
MaxBatches == 3

\* size on disk of one info record
InfoSize == 2

\* size on disk of one exchange record (a batch of two has size 2 * RecSize)
RecSize == 1

\* the larger of the two rotation thresholds tried (settings.WarcSize)
BigThreshold == 5

\* the smaller one; below InfoSize, so that an info record alone exceeds it
SmallThreshold == 1

Producers == 1 .. NumProducers

Thresholds == {SmallThreshold, BigThreshold}

Compressions == {"", "GZIP", "ZSTD"}

(* ------------------------------ state ---------------------------------- *)

VARIABLES
    settings,      \* *RotatorSettings: [Compression, WarcSize]
    chClosed,      \* rotator.ch has been closed
    prod,          \* the goroutines inside rawResponseCallback
    clock,         \* the wall clock NewRecordBatch reads
    closer,        \* position of the goroutine calling rotator.Close
    fault,         \* "none", or the panic that ended the process
    wpc,           \* position of recordWriter
    serial,        \* recordWriter: serial
    currentWarcinfoRecordID,  \* recordWriter: the outer variable of that name
    warcFile,      \* recordWriter: index in files of the open handle
    warcWriter,    \* recordWriter: the current *Writer
    recordBatch,   \* recordWriter: the batch received from the channel
    idx,           \* recordWriter: position in recordBatch.Records
    files,         \* the output directory: the files in creation order
    nextUUID,      \* source of record identifiers
    nextWriter,    \* source of writer identities
    accepted,      \* history: ids of the batches received, in order
    nChecks        \* history: number of calls of isFileSizeExceeded

VARIABLES
    cW,            \* foo: the one connWrapper, [c, req, resp]
    conns,         \* the connections dialled so far: [host, open]
    tpc,           \* position of the goroutine inside roundTripper.RoundTrip
    cur,           \* URL of the request being sent
    loc,           \* URL of the request a redirect response asks for
    reqs,          \* http.Client.do: the requests made so far in this chain (via)
    pending,       \* response bytes the connection has not handed out yet
    hops,          \* number of requests written to a connection, in all
    doNo,          \* number of calls of RoundTrip so far
    result,        \* what the last RoundTrip returned
    tfault,        \* "none", or the panic raised by wrap
    callbacks,     \* history: the invocations of the capture callback
    limits         \* the run's budget: [hops, dos], requests and calls in all

tvars == <<cW, conns, tpc, cur, loc, reqs, pending, hops, doNo, result,
           tfault, callbacks, limits>>

rvars == <<settings, chClosed, prod, clock, closer, fault, wpc, serial,
           currentWarcinfoRecordID, warcFile, warcWriter, recordBatch, idx,
           files, nextUUID, nextWriter, accepted, nChecks>>

(* ------------------------------ data ----------------------------------- *)

\* the zero value of the loop variable recordBatch
NoBatch == [id |-> <<0, 0>>, Records |-> <<>>, CaptureTime |-> 0]

\* a *Writer that has not been created yet
NoWriter == [id |-> 0, file |-> 0, closed |-> FALSE]

\* NewRecordBatch: an empty batch stamped with the current time
NewRecordBatch(bid, now) == [id |-> bid, Records |-> <<>>, CaptureTime |-> now]

\* the record rawResponseCallback builds for one side of the exchange
ExchangeRecord(type, bid, uri) ==
    [type |-> type, batch |-> bid, uri |-> uri, date |-> 0, warcinfoID |-> 0]

\* batch.Records = append(batch.Records, responseRecord, requestRecord)
BuildBatch(bid, uri, now) ==
    [NewRecordBatch(bid, now) EXCEPT
        !.Records = <<ExchangeRecord("response", bid, uri),
                      ExchangeRecord("request", bid, uri)>>]

\* os.Create: a new, empty file carrying the .open marker
NewFile(s) ==
    [serial |-> s, open |-> TRUE, handle |-> TRUE, recs |-> <<>>,
     flushed |-> TRUE, late |-> {}, sealedBy |-> "", pending |-> {},
     closedFrames |-> {}, flushErr |-> FALSE]

\* NewWriter(warcFile, currentFileName, settings.Compression)
NewWriter(wid, f) == [id |-> wid, file |-> f, closed |-> FALSE]

\* the record WriteInfoRecord writes, and the identifier it returns
InfoRecord(uuid, w) ==
    [type |-> "warcinfo", batch |-> <<0, 0>>, uri |-> 0, date |-> 0,
     warcinfoID |-> 0, id |-> uuid, frame |-> w.id, frameClosed |-> w.closed]

\* a stamp that takes the time of the write instead of the batch's
StampedAtWrite(rec, date, infoID, uuid, w) ==
    [type |-> rec.type, batch |-> rec.batch, uri |-> rec.uri, date |-> clock,
     warcinfoID |-> infoID, id |-> uuid, frame |-> w.id, frameClosed |-> w.closed]

\* record.Header.Set("WARC-Date", ..); record.Header.Set("WARC-Warcinfo-ID", ..)
\* and the record as WriteRecord lays it down through writer w
Stamped(rec, date, infoID, uuid, w) ==
    [type |-> rec.type, batch |-> rec.batch, uri |-> rec.uri, date |-> date,
     warcinfoID |-> infoID, id |-> uuid, frame |-> w.id, frameClosed |-> w.closed]

\* size on disk of one record
SizeOf(rec) == IF rec.type = "warcinfo" THEN InfoSize ELSE RecSize

RECURSIVE SumSizes(_)
SumSizes(recs) ==
    IF recs = <<>> THEN 0 ELSE SizeOf(Head(recs)) + SumSizes(Tail(recs))

\* the size os.Stat reports for a file
FileSize(f) == SumSizes(f.recs)

\* isFileSizeExceeded(path, settings.WarcSize)
isFileSizeExceeded(f, warcSize) == FileSize(f) > warcSize

\* a serial that skips a number
NextSerialSkips(s) == s + 2

\* serial++
NextSerial(s) == s + 1

\* the index in files of the file named by generateWarcFileName(.., s)
FileNamed(s) == CHOOSE i \in 1 .. Len(files) :
                  /\ files[i].serial = s
                  /\ \A j \in 1 .. Len(files) : files[j].serial = s => j <= i

Compressed == settings.Compression # ""

(* ------------------------------ Init ----------------------------------- *)

RInit ==
    /\ settings \in [Compression : Compressions, WarcSize : Thresholds]
    /\ chClosed = FALSE
    /\ prod = [p \in Producers |-> [pc |-> "idle", calls |-> 0, batch |-> NoBatch]]
    /\ clock = 1
    /\ closer = "idle"
    /\ fault = "none"
    /\ wpc = "create"
    /\ serial = 1
    /\ currentWarcinfoRecordID = 0
    /\ warcFile = 0
    /\ warcWriter = NoWriter
    /\ recordBatch = NoBatch
    /\ idx = 0
    /\ files = <<>>
    /\ nextUUID = 1
    /\ nextWriter = 1
    /\ accepted = <<>>
    /\ nChecks = 0

(* ------------------- recordWriter: file operations ---------------------- *)

\* no goroutine has panicked: the process is running
Alive == fault = "none" /\ tfault = "none"

\* an operation on file i through its handle or writer; one that reaches a
\* file that has already lost its .open marker is remembered in late
Touch(f, op) == IF f.open THEN f ELSE [f EXCEPT !.late = @ \cup {op}]

\* fileWriter.Flush()
Flushed(f) == [Touch(f, "flush") EXCEPT !.flushed = TRUE]

\* a record reaching the file
Written(f, rec) ==
    [Touch(f, "write") EXCEPT !.recs = Append(@, rec), !.flushed = FALSE]

\* warcFile.Close()
HandleClosed(f) == [Touch(f, "close") EXCEPT !.handle = FALSE]

\* os.Rename(name, strings.TrimSuffix(name, ".open")); pending remembers
\* what had not been done to the file when it was published
Renamed(f, w, by) ==
    [f EXCEPT !.open = FALSE, !.sealedBy = by,
              !.pending = (IF f.flushed THEN {} ELSE {"flush"})
                          \cup (IF Compressed /\ ~w.closed THEN {"wrapper"} ELSE {})
                          \cup (IF f.handle THEN {"close"} ELSE {})]

\* gzipWriter.Close() / zstdWriter.Close() of writer w
WrapperClosed(f, w) ==
    [Touch(f, "wrapper") EXCEPT !.closedFrames = @ \cup {w.id}]

\* the variables recordWriter never writes
envv == <<settings, chClosed, clock, closer, tvars>>

\* a panic(err) of recordWriter: the process ends where it stands
IOFails == /\ fault' = "io"
           /\ UNCHANGED <<envv, prod, wpc, serial, currentWarcinfoRecordID,
                          warcFile, warcWriter, recordBatch, idx, files,
                          nextUUID, nextWriter, accepted, nChecks>>

\* a loop that tests the threshold again before every record
AfterRecordRechecks(i, n) == IF i <= n THEN "check" ELSE "bflush"

\* where the loop over recordBatch.Records goes after record i-1 of n
AfterRecord(i, n) == IF i <= n THEN "write" ELSE "bflush"

\* a loop that walks the batch backwards
RecordAtReversed(b, i) == b.Records[Len(b.Records) + 1 - i]

\* for _, record := range recordBatch.Records: the i-th record of the loop
RecordAt(b, i) == b.Records[i]

(* ------------------- recordWriter: start-up ----------------------------- *)

\* warcFile, err := os.Create(settings.OutputDirectory + currentFileName)
Create ==
    /\ Alive /\ wpc = "create"
    /\ \/ /\ files' = Append(files, NewFile(serial))
          /\ warcFile' = Len(files) + 1
          /\ wpc' = "newwriter"
          /\ UNCHANGED <<envv, prod, fault, serial, currentWarcinfoRecordID,
                         warcWriter, recordBatch, idx, nextUUID, nextWriter,
                         accepted, nChecks>>
       \/ IOFails

\* warcWriter, err := NewWriter(warcFile, currentFileName, settings.Compression)
InitWriter ==
    /\ Alive /\ wpc = "newwriter"
    /\ \/ /\ warcWriter' = NewWriter(nextWriter, warcFile)
          /\ nextWriter' = nextWriter + 1
          /\ wpc' = "info"
          /\ UNCHANGED <<envv, prod, fault, serial, currentWarcinfoRecordID,
                         warcFile, recordBatch, idx, files, nextUUID, accepted,
                         nChecks>>
       \/ IOFails                               \* if err != nil { panic(err) }

\* currentWarcinfoRecordID, err = warcWriter.WriteInfoRecord(..)
WriteInfo ==
    /\ Alive /\ wpc = "info"
    /\ \/ /\ files' = [files EXCEPT ![warcWriter.file] =
                            Written(@, InfoRecord(nextUUID, warcWriter))]
          /\ currentWarcinfoRecordID' = nextUUID
          /\ nextUUID' = nextUUID + 1
          /\ wpc' = "reframe"
          /\ UNCHANGED <<envv, prod, fault, serial, warcFile, warcWriter,
                         recordBatch, idx, nextWriter, accepted, nChecks>>
       \/ IOFails

\* if compression is enabled: close the info record's frame, open a new writer
Reframe ==
    /\ Alive /\ wpc = "reframe"
    /\ \/ /\ IF Compressed
             THEN /\ files' = [files EXCEPT ![warcWriter.file] =
                                    WrapperClosed(@, warcWriter)]
                  /\ warcWriter' = NewWriter(nextWriter, warcFile)
                  /\ nextWriter' = nextWriter + 1
             ELSE UNCHANGED <<files, warcWriter, nextWriter>>
          /\ wpc' = "recv"
          /\ fault' = fault
       \/ /\ Compressed                          \* NewWriter fails: panic(err)
          /\ files' = [files EXCEPT ![warcWriter.file] =
                          WrapperClosed(@, warcWriter)]
          /\ warcWriter' = NoWriter
          /\ fault' = "io"
          /\ UNCHANGED <<nextWriter, wpc>>
    /\ UNCHANGED <<envv, prod, serial, currentWarcinfoRecordID, warcFile,
                   recordBatch, idx, nextUUID, accepted, nChecks>>

(* ------------------- recordWriter: the receive loop --------------------- *)

\* a receive that does not wait for the loop to come back to the range
RecvEarly(p) ==
    /\ Alive /\ ~chClosed
    /\ prod[p].pc = "sending"
    /\ recordBatch' = prod[p].batch
    /\ idx' = 1
    /\ accepted' = Append(accepted, prod[p].batch.id)
    /\ prod' = [prod EXCEPT ![p] = [pc |-> "idle", calls |-> @.calls + 1,
                                    batch |-> NoBatch]]
    /\ wpc' = "check"
    /\ UNCHANGED <<envv, fault, serial, currentWarcinfoRecordID, warcFile,
                   warcWriter, files, nextUUID, nextWriter, nChecks>>

\* for recordBatch := range records: the rendezvous with the sender p, whose
\* r.r.ch <- batch returns
Recv(p) ==
    /\ Alive /\ wpc = "recv" /\ ~chClosed
    /\ prod[p].pc = "sending"
    /\ recordBatch' = prod[p].batch
    /\ idx' = 1
    /\ accepted' = Append(accepted, prod[p].batch.id)
    /\ prod' = [prod EXCEPT ![p] = [pc |-> "idle", calls |-> @.calls + 1,
                                    batch |-> NoBatch]]
    /\ wpc' = "check"
    /\ UNCHANGED <<envv, fault, serial, currentWarcinfoRecordID, warcFile,
                   warcWriter, files, nextUUID, nextWriter, nChecks>>

\* the range loop ends: the channel has been closed
RecvClosed ==
    /\ Alive /\ wpc = "recv" /\ chClosed
    /\ wpc' = "fin_flush"
    /\ UNCHANGED <<envv, prod, fault, serial, currentWarcinfoRecordID, warcFile,
                   warcWriter, recordBatch, idx, files, nextUUID, nextWriter,
                   accepted, nChecks>>

\* a loop that never rotates
CheckSizeNever ==
    /\ Alive /\ wpc = "check"
    /\ nChecks' = nChecks + 1
    /\ wpc' = "write"
    /\ UNCHANGED <<envv, prod, fault, serial, currentWarcinfoRecordID, warcFile,
                   warcWriter, recordBatch, idx, files, nextUUID, nextWriter,
                   accepted>>

\* if isFileSizeExceeded(settings.OutputDirectory+currentFileName, settings.WarcSize)
CheckSize ==
    /\ Alive /\ wpc = "check"
    /\ nChecks' = nChecks + 1
    /\ wpc' = IF isFileSizeExceeded(files[FileNamed(serial)], settings.WarcSize)
              THEN "rot_rename"
              ELSE AfterRecord(1, Len(recordBatch.Records))
    /\ UNCHANGED <<envv, prod, fault, serial, currentWarcinfoRecordID, warcFile,
                   warcWriter, recordBatch, idx, files, nextUUID, nextWriter,
                   accepted>>

(* ------------------- recordWriter: rotation ----------------------------- *)

\* err := os.Rename(.., strings.TrimSuffix(.., ".open"))
RotRename ==
    /\ Alive /\ wpc = "rot_rename"
    /\ \/ /\ files' = [files EXCEPT ![FileNamed(serial)] =
                            Renamed(@, warcWriter, "rotation")]
          /\ wpc' = "rot_flush"
          /\ UNCHANGED <<envv, prod, fault, serial, currentWarcinfoRecordID,
                         warcFile, warcWriter, recordBatch, idx, nextUUID,
                         nextWriter, accepted, nChecks>>
       \/ IOFails

\* warcWriter.fileWriter.Flush()
RotFlush ==
    /\ Alive /\ wpc = "rot_flush"
    /\ files' = [files EXCEPT ![warcWriter.file] = Flushed(@)]
    /\ wpc' = "rot_wrapper"
    /\ UNCHANGED <<envv, prod, fault, serial, currentWarcinfoRecordID, warcFile,
                   warcWriter, recordBatch, idx, nextUUID, nextWriter, accepted,
                   nChecks>>

\* warcWriter.gzipWriter.Close() / warcWriter.zstdWriter.Close()
RotCloseWrapper ==
    /\ Alive /\ wpc = "rot_wrapper"
    /\ IF Compressed
       THEN /\ files' = [files EXCEPT ![warcWriter.file] = WrapperClosed(@, warcWriter)]
            /\ warcWriter' = [warcWriter EXCEPT !.closed = TRUE]
       ELSE UNCHANGED <<files, warcWriter>>
    /\ wpc' = "rot_close"
    /\ UNCHANGED <<envv, prod, fault, serial, currentWarcinfoRecordID, warcFile,
                   recordBatch, idx, nextUUID, nextWriter, accepted, nChecks>>

\* warcFile.Close()
RotCloseFile ==
    /\ Alive /\ wpc = "rot_close"
    /\ files' = [files EXCEPT ![warcFile] = HandleClosed(@)]
    /\ wpc' = "rot_create"
    /\ UNCHANGED <<envv, prod, fault, serial, currentWarcinfoRecordID, warcFile,
                   warcWriter, recordBatch, idx, nextUUID, nextWriter, accepted,
                   nChecks>>

\* serial++; currentFileName = generateWarcFileName(..); warcFile, err = os.Create(..)
RotCreate ==
    /\ Alive /\ wpc = "rot_create"
    /\ serial' = NextSerial(serial)
    /\ \/ /\ files' = Append(files, NewFile(serial'))
          /\ warcFile' = Len(files) + 1
          /\ wpc' = "rot_writer"
          /\ fault' = fault
       \/ /\ fault' = "io"
          /\ UNCHANGED <<files, warcFile, wpc>>
    /\ UNCHANGED <<envv, prod, currentWarcinfoRecordID, warcWriter, recordBatch,
                   idx, nextUUID, nextWriter, accepted, nChecks>>

\* warcWriter, err = NewWriter(warcFile, currentFileName, settings.Compression)
RotWriter ==
    /\ Alive /\ wpc = "rot_writer"
    /\ \/ /\ warcWriter' = NewWriter(nextWriter, warcFile)
          /\ nextWriter' = nextWriter + 1
          /\ wpc' = "rot_info"
          /\ UNCHANGED <<envv, prod, fault, serial, currentWarcinfoRecordID,
                         warcFile, recordBatch, idx, files, nextUUID, accepted,
                         nChecks>>
       \/ IOFails                               \* if err != nil { panic(err) }

\* a rotation that forgets the info record of the new file
RotWriteInfoSkipped ==
    /\ Alive /\ wpc = "rot_info"
    /\ wpc' = "rot_frame"
    /\ UNCHANGED <<envv, prod, fault, serial, currentWarcinfoRecordID, warcFile,
                   warcWriter, recordBatch, idx, files, nextUUID, nextWriter,
                   accepted, nChecks>>

\* currentWarcinfoRecordID, err := warcWriter.WriteInfoRecord(..)
\* _ = currentWarcinfoRecordID
\* (":=" declares a new variable in the if block: the outer one keeps its value)
RotWriteInfo ==
    /\ Alive /\ wpc = "rot_info"
    /\ \/ /\ files' = [files EXCEPT ![warcWriter.file] =
                            Written(@, InfoRecord(nextUUID, warcWriter))]
          /\ nextUUID' = nextUUID + 1
          /\ wpc' = "rot_frame"
          /\ UNCHANGED <<envv, prod, fault, serial, currentWarcinfoRecordID,
                         warcFile, warcWriter, recordBatch, idx, nextWriter,
                         accepted, nChecks>>
       \/ IOFails

\* if compression is enabled: close the info record's frame
RotCloseFrame ==
    /\ Alive /\ wpc = "rot_frame"
    /\ IF Compressed
       THEN /\ files' = [files EXCEPT ![warcWriter.file] = WrapperClosed(@, warcWriter)]
            /\ warcWriter' = [warcWriter EXCEPT !.closed = TRUE]
       ELSE UNCHANGED <<files, warcWriter>>
    /\ wpc' = AfterRecord(1, Len(recordBatch.Records))
    /\ UNCHANGED <<envv, prod, fault, serial, currentWarcinfoRecordID, warcFile,
                   recordBatch, idx, nextUUID, nextWriter, accepted, nChecks>>

(* ------------------- recordWriter: writing a batch ---------------------- *)

\* warcWriter, err = NewWriter(..); record.Header.Set("WARC-Date", ..);
\* record.Header.Set("WARC-Warcinfo-ID", ..); _, err := warcWriter.WriteRecord(record)
WriteRec ==
    /\ Alive /\ wpc = "write"
    /\ idx <= Len(recordBatch.Records)
    /\ \/ /\ warcWriter' = NewWriter(nextWriter, warcFile)
          /\ nextWriter' = nextWriter + 1
          /\ files' = [files EXCEPT ![warcFile] =
                  Written(@, Stamped(RecordAt(recordBatch, idx),
                                     recordBatch.CaptureTime,
                                     currentWarcinfoRecordID,
                                     nextUUID, warcWriter'))]
          /\ nextUUID' = nextUUID + 1
          /\ wpc' = "frame"
          /\ fault' = fault
       \/ /\ warcWriter' = NoWriter              \* NewWriter fails: panic(err)
          /\ fault' = "io"
          /\ UNCHANGED <<files, nextUUID, nextWriter, wpc>>
       \/ /\ warcWriter' = NewWriter(nextWriter, warcFile)
          /\ nextWriter' = nextWriter + 1        \* WriteRecord fails: panic(err)
          /\ fault' = "io"
          /\ UNCHANGED <<files, nextUUID, wpc>>
    /\ UNCHANGED <<envv, prod, serial, currentWarcinfoRecordID, warcFile,
                   recordBatch, idx, accepted, nChecks>>

\* a loop that leaves the record's frame open
CloseFrameSkipped ==
    /\ Alive /\ wpc = "frame"
    /\ idx' = idx + 1
    /\ wpc' = AfterRecord(idx + 1, Len(recordBatch.Records))
    /\ UNCHANGED <<envv, prod, fault, serial, currentWarcinfoRecordID, warcFile,
                   warcWriter, files, recordBatch, nextUUID, nextWriter,
                   accepted, nChecks>>

\* if compression is enabled: close the record's frame; then the next record
CloseFrame ==
    /\ Alive /\ wpc = "frame"
    /\ IF Compressed
       THEN /\ files' = [files EXCEPT ![warcWriter.file] = WrapperClosed(@, warcWriter)]
            /\ warcWriter' = [warcWriter EXCEPT !.closed = TRUE]
       ELSE UNCHANGED <<files, warcWriter>>
    /\ idx' = idx + 1
    /\ wpc' = AfterRecord(idx + 1, Len(recordBatch.Records))
    /\ UNCHANGED <<envv, prod, fault, serial, currentWarcinfoRecordID, warcFile,
                   recordBatch, nextUUID, nextWriter, accepted, nChecks>>

\* warcWriter.fileWriter.Flush() after the batch
BatchFlush ==
    /\ Alive /\ wpc = "bflush"
    /\ files' = [files EXCEPT ![warcWriter.file] = Flushed(@)]
    /\ recordBatch' = NoBatch
    /\ idx' = 0
    /\ wpc' = "recv"
    /\ UNCHANGED <<envv, prod, fault, serial, currentWarcinfoRecordID, warcFile,
                   warcWriter, nextUUID, nextWriter, accepted, nChecks>>

(* ------------------- recordWriter: shutdown ----------------------------- *)

\* warcWriter.fileWriter.Flush()
FinFlush ==
    /\ Alive /\ wpc = "fin_flush"
    /\ files' = [files EXCEPT ![warcWriter.file] = Flushed(@)]
    /\ wpc' = "fin_wrapper"
    /\ UNCHANGED <<envv, prod, fault, serial, currentWarcinfoRecordID, warcFile,
                   warcWriter, recordBatch, idx, nextUUID, nextWriter, accepted,
                   nChecks>>

\* warcWriter.gzipWriter.Close() / warcWriter.zstdWriter.Close()
FinCloseWrapper ==
    /\ Alive /\ wpc = "fin_wrapper"
    /\ IF Compressed
       THEN /\ files' = [files EXCEPT ![warcWriter.file] = WrapperClosed(@, warcWriter)]
            /\ warcWriter' = [warcWriter EXCEPT !.closed = TRUE]
       ELSE UNCHANGED <<files, warcWriter>>
    /\ wpc' = "fin_close"
    /\ UNCHANGED <<envv, prod, fault, serial, currentWarcinfoRecordID, warcFile,
                   recordBatch, idx, nextUUID, nextWriter, accepted, nChecks>>

\* warcFile.Close()
FinCloseFile ==
    /\ Alive /\ wpc = "fin_close"
    /\ files' = [files EXCEPT ![warcFile] = HandleClosed(@)]
    /\ wpc' = "fin_rename"
    /\ UNCHANGED <<envv, prod, fault, serial, currentWarcinfoRecordID, warcFile,
                   warcWriter, recordBatch, idx, nextUUID, nextWriter, accepted,
                   nChecks>>

\* err = os.Rename(..); the function returns and the deferred s.Done() runs
FinRename ==
    /\ Alive /\ wpc = "fin_rename"
    /\ \/ /\ files' = [files EXCEPT ![FileNamed(serial)] =
                            Renamed(@, warcWriter, "shutdown")]
          /\ wpc' = "done"
          /\ UNCHANGED <<envv, prod, fault, serial, currentWarcinfoRecordID,
                         warcFile, warcWriter, recordBatch, idx, nextUUID,
                         nextWriter, accepted, nChecks>>
       \/ IOFails

(* ------------------- producers and rotator.Close ------------------------ *)

\* rawResponseCallback up to the send: the batch of two records is built
Build(p) ==
    /\ Alive
    /\ prod[p].pc = "idle" /\ clock <= MaxBatches
    /\ \/ /\ prod' = [prod EXCEPT ![p] =
                        [pc |-> "sending", calls |-> @.calls,
                         batch |-> BuildBatch(<<p, @.calls + 1>>, p, clock)]]
          /\ clock' = clock + 1
          /\ fault' = fault
       \/ /\ fault' = "callback"     \* headersFromRawData, readReaderIfNotNil:
          /\ UNCHANGED <<prod, clock>>   \* panic before the send
    /\ UNCHANGED <<tvars, settings, chClosed, closer, wpc, serial,
                   currentWarcinfoRecordID, warcFile, warcWriter, recordBatch,
                   idx, files, nextUUID, nextWriter, accepted, nChecks>>

\* r.r.ch <- batch on a closed channel: panic "send on closed channel"
SendPanic(p) ==
    /\ Alive
    /\ prod[p].pc = "sending" /\ chClosed
    /\ fault' = "send"
    /\ UNCHANGED <<envv, prod, wpc, serial, currentWarcinfoRecordID, warcFile,
                   warcWriter, recordBatch, idx, files, nextUUID, nextWriter,
                   accepted, nChecks>>

\* rotator.Close: close(r.ch)
CloseChan ==
    /\ Alive /\ closer = "idle"
    /\ chClosed' = TRUE
    /\ closer' = "waiting"
    /\ UNCHANGED <<tvars, settings, prod, clock, fault, wpc, serial,
                   currentWarcinfoRecordID, warcFile, warcWriter, recordBatch,
                   idx, files, nextUUID, nextWriter, accepted, nChecks>>

\* rotator.Close: r.wg.Wait() returns once recordWriter has called s.Done()
CloseReturn ==
    /\ closer = "waiting"
    /\ \/ Alive /\ wpc = "done"
       \/ fault = "io"                 \* defer s.Done() runs in the panic
    /\ closer' = "returned"
    /\ UNCHANGED <<tvars, settings, chClosed, prod, clock, fault, wpc, serial,
                   currentWarcinfoRecordID, warcFile, warcWriter, recordBatch,
                   idx, files, nextUUID, nextWriter, accepted, nChecks>>

(* ------------------- recordWriter: a Flush that fails ------------------- *)

\* fileWriter.Flush() returns an error: the buffered bytes do not reach the
\* file, and the caller drops the error
FlushFailed(f) == [Touch(f, "flush") EXCEPT !.flushErr = TRUE]

\* warcWriter.fileWriter.Flush() of the rotation fails; the error is dropped
RotFlushFails ==
    /\ Alive /\ wpc = "rot_flush"
    /\ files' = [files EXCEPT ![warcWriter.file] = FlushFailed(@)]
    /\ wpc' = "rot_wrapper"
    /\ UNCHANGED <<envv, prod, fault, serial, currentWarcinfoRecordID, warcFile,
                   warcWriter, recordBatch, idx, nextUUID, nextWriter, accepted,
                   nChecks>>

\* warcWriter.fileWriter.Flush() after the batch fails; the error is dropped
BatchFlushFails ==
    /\ Alive /\ wpc = "bflush"
    /\ files' = [files EXCEPT ![warcWriter.file] = FlushFailed(@)]
    /\ recordBatch' = NoBatch
    /\ idx' = 0
    /\ wpc' = "recv"
    /\ UNCHANGED <<envv, prod, fault, serial, currentWarcinfoRecordID, warcFile,
                   warcWriter, nextUUID, nextWriter, accepted, nChecks>>

\* warcWriter.fileWriter.Flush() of the shutdown fails; the error is dropped
FinFlushFails ==
    /\ Alive /\ wpc = "fin_flush"
    /\ files' = [files EXCEPT ![warcWriter.file] = FlushFailed(@)]
    /\ wpc' = "fin_wrapper"
    /\ UNCHANGED <<envv, prod, fault, serial, currentWarcinfoRecordID, warcFile,
                   warcWriter, recordBatch, idx, nextUUID, nextWriter, accepted,
                   nChecks>>

(* ------------------- the recorder's specification ----------------------- *)

Writer ==
    \/ Create \/ InitWriter \/ WriteInfo \/ Reframe
    \/ (\E p \in Producers : Recv(p)) \/ RecvClosed \/ CheckSize
    \/ RotRename \/ RotFlush \/ RotCloseWrapper \/ RotCloseFile
    \/ RotCreate \/ RotWriter \/ RotWriteInfo \/ RotCloseFrame
    \/ WriteRec \/ CloseFrame \/ BatchFlush
    \/ FinFlush \/ FinCloseWrapper \/ FinCloseFile \/ FinRename

RNext ==
    \/ Writer
    \/ \E p \in Producers : Build(p)
    \/ \E p \in Producers : SendPanic(p)
    \/ CloseChan
    \/ CloseReturn

vars == <<rvars, tvars>>

Next == RNext

\* the recorder on a disk where Flush can fail as well
NextF ==
    \/ RNext
    \/ RotFlushFails
    \/ BatchFlushFails
    \/ FinFlushFails

(* ------------------- transport.go: data --------------------------------- *)


\* number of calls of RoundTrip
MaxDo == 2

\* number of distinct URLs
NumURLs == 3

\* number of bytes of one response on the wire
RespLen == 2

\* if len(via) >= 10
MaxRedirects == 10

\* requests of a run that follows one chain: enough to reach the limit
MaxHops == MaxRedirects + 1

\* requests, in all, of a run that makes several calls of RoundTrip
MaxShortHops == 3

\* a run of several short calls, and a run of one call with a long chain
ShortCalls == [hops |-> MaxShortHops, dos |-> MaxDo]

LongChain == [hops |-> MaxHops, dos |-> 1]

URLs == 1 .. NumURLs

\* URLs 1 and 2 live on host 1, URLs 3 and 4 on host 2, ...
HostOf(u) == (u + 1) \div 2

\* the goroutine that calls RoundTrip, among those of rawResponseCallback
Client == 1

\* the raw bytes of the request of hop h: one block, the head, which ends
\* with CR LF CR LF (eoh)
ReqBytes(h) == <<[hop |-> h, dir |-> "out", eoh |-> TRUE]>>

\* the raw bytes of the response of hop h: the head, then the body; the
\* head ends with CR LF CR LF unless the server ends its lines with a bare LF
RespBytes(h, crlf) ==
    [i \in 1 .. RespLen |-> [hop |-> h, dir |-> "in", eoh |-> (i = 1 /\ crlf)]]

\* the servers: the one behind every third URL ends its lines with a bare LF
BareLF(u) == u % 3 = 0

\* the servers: the one behind every second URL sends the head of its
\* response alone, the others send head and body in one segment
FirstRead(u) == IF u % 2 = 0 THEN 1 ELSE RespLen

\* cW := &connWrapper{req: &bytes.Buffer{}, resp: &bytes.Buffer{}}
NewConnWrapper == [c |-> 0, req |-> <<>>, resp |-> <<>>]

\* connWrapper.Write: c.req.Write(b); return c.c.Write(b)
WrapperWrite(w, b) == [w EXCEPT !.req = @ \o b]

\* connWrapper.Read: n, err = c.c.Read(b); c.resp.Write(b[:n])
WrapperRead(w, b, n) == [w EXCEPT !.resp = @ \o SubSeq(b, 1, n)]

\* cW.req.Reset(); cW.resp.Reset()
WrapperReset(w) == [w EXCEPT !.req = <<>>, !.resp = <<>>]

\* headersFromRawData: the position after the first CR LF CR LF of data, or
\* 0 when there is none (the function panics)
HeaderEnd(data) ==
    IF \E i \in 1 .. Len(data) : data[i].eoh
    THEN CHOOSE i \in 1 .. Len(data) :
            data[i].eoh /\ \A j \in 1 .. i - 1 : ~data[j].eoh
    ELSE 0

\* a limit test that lets one more request through
TooManyRedirectsLate(via) == Len(via) > MaxRedirects

\* if len(via) >= 10 { return errors.New("stopped after 10 redirects") }
TooManyRedirects(via) == Len(via) >= MaxRedirects

\* callback(req, resp, cW.req.Bytes(), cW.resp.Bytes()): the invocation, and
\* the batch rawResponseCallback builds from it
Invocation(req, via, w, n) ==
    [do |-> doNo, req |-> req, resp |-> Len(via), respURL |-> via[Len(via)],
     hop |-> hops, reqData |-> w.req, respData |-> w.resp,
     batch |-> BuildBatch(<<doNo, Len(via)>>, req, n)]

TInit ==
    /\ cW = NewConnWrapper
    /\ conns = <<>>
    /\ tpc = "idle"
    /\ cur = 0
    /\ loc = 0
    /\ reqs = <<>>
    /\ pending = <<>>
    /\ hops = 0
    /\ doNo = 0
    /\ result = ""
    /\ tfault = "none"
    /\ callbacks = <<>>
    /\ limits \in {ShortCalls, LongChain}

TAlive == Alive

\* the variables of the recorder the client's goroutine never writes
cenv == <<settings, chClosed, clock, closer, wpc, serial,
          currentWarcinfoRecordID, warcFile, warcWriter, recordBatch, idx,
          files, nextUUID, nextWriter, accepted, nChecks>>

(* ------------------- transport.go: the client --------------------------- *)

\* roundTripper.RoundTrip: resp, err := t.c.Do(req)
StartDo(u) ==
    /\ TAlive /\ tpc = "idle" /\ hops < limits.hops /\ doNo < limits.dos
    /\ cur' = u
    /\ reqs' = <<>>
    /\ result' = ""
    /\ doNo' = doNo + 1
    /\ tpc' = "conn"
    /\ UNCHANGED <<rvars, limits, cW, conns, loc, pending, hops, tfault, callbacks>>

\* the transport has an idle kept-alive connection to the host (the body of
\* the response before has been read to its end): no dial
Reuse ==
    /\ TAlive /\ tpc = "conn"
    /\ cW.c # 0 /\ conns[cW.c].open /\ conns[cW.c].host = HostOf(cur)
    /\ pending = <<>>
    /\ tpc' = "write"
    /\ UNCHANGED <<rvars, limits, cW, conns, cur, loc, reqs, pending, hops, doNo,
                   result, tfault, callbacks>>

\* a dial function that attaches the connection without the nil check
DialReplaces ==
    /\ TAlive /\ tpc = "conn"
    /\ ~(/\ cW.c # 0 /\ conns[cW.c].open /\ conns[cW.c].host = HostOf(cur)
         /\ pending = <<>>)
    /\ \/ /\ result' = "dial-error"
          /\ tpc' = "idle"
          /\ UNCHANGED <<cW, conns, tfault, pending>>
       \/ /\ conns' = Append(conns, [host |-> HostOf(cur), open |-> TRUE])
          /\ cW' = [cW EXCEPT !.c = Len(conns) + 1]
          /\ tpc' = "write"
          /\ UNCHANGED <<result, tfault, pending>>
    /\ UNCHANGED <<rvars, limits, cur, loc, reqs, hops, doNo, callbacks>>

\* wrap(df): the dial function installed as DialContext and DialTLSContext
Dial ==
    /\ TAlive /\ tpc = "conn"
    /\ ~(/\ cW.c # 0 /\ conns[cW.c].open /\ conns[cW.c].host = HostOf(cur)
         /\ pending = <<>>)
    /\ \/ /\ result' = "dial-error"             \* if err != nil { return nil, err }
          /\ tpc' = "idle"
          /\ UNCHANGED <<cW, conns, tfault, pending>>
       \/ /\ cW.c # 0                            \* panic(fmt.Errorf(..))
          /\ tfault' = "wrap"
          /\ UNCHANGED <<cW, conns, tpc, result, pending>>
       \/ /\ cW.c = 0                            \* cW.c = conn
          /\ conns' = Append(conns, [host |-> HostOf(cur), open |-> TRUE])
          /\ cW' = [cW EXCEPT !.c = Len(conns) + 1]
          /\ tpc' = "write"
          /\ UNCHANGED <<tfault, result, pending>>
    /\ UNCHANGED <<rvars, limits, cur, loc, reqs, hops, doNo, callbacks>>

\* the request goes out through connWrapper.Write; the server's answer is
\* on its way
SendRequest ==
    /\ TAlive /\ tpc = "write"
    /\ hops' = hops + 1
    /\ cW' = WrapperWrite(cW, ReqBytes(hops'))
    /\ reqs' = Append(reqs, cur)
    /\ pending' = RespBytes(hops', ~BareLF(cur))
    /\ tpc' = "read"
    /\ UNCHANGED <<rvars, limits, conns, cur, loc, doNo, result, tfault, callbacks>>

\* the transport reads the head of the response through connWrapper.Read;
\* the read returns n bytes, the head and whatever of the body came with it
ReadResponse(n) ==
    /\ TAlive /\ tpc = "read"
    /\ n = FirstRead(cur)
    /\ cW' = WrapperRead(cW, pending, n)
    /\ pending' = SubSeq(pending, n + 1, Len(pending))
    /\ tpc' = "resp"
    /\ UNCHANGED <<rvars, limits, conns, cur, loc, reqs, hops, doNo, result, tfault,
                   callbacks>>

\* the response is final: Do returns it, and RoundTrip returns resp, err
\* (its call of triggerCallback is commented out)
Terminal ==
    /\ TAlive /\ tpc = "resp"
    /\ result' = "ok"
    /\ tpc' = "idle"
    /\ UNCHANGED <<rvars, limits, cW, conns, cur, loc, reqs, pending, hops, doNo,
                   tfault, callbacks>>

\* the caller of RoundTrip reads the rest of the body of the response it was
\* given, through connWrapper.Read
ReadBody ==
    /\ TAlive /\ tpc = "idle"
    /\ pending # <<>>
    /\ cW' = WrapperRead(cW, pending, Len(pending))
    /\ pending' = <<>>
    /\ UNCHANGED <<rvars, limits, conns, tpc, cur, loc, reqs, hops, doNo, result,
                   tfault, callbacks>>

\* the response is a redirect to u: Do prepares the next request and calls
\* checkRedirect(req, via)
Redirect(u) ==
    /\ TAlive /\ tpc = "resp"
    /\ u \in {cur, cur + 1} \cap URLs
    /\ hops < limits.hops
    /\ loc' = u
    /\ tpc' = "check"
    /\ UNCHANGED <<rvars, limits, cW, conns, cur, reqs, pending, hops, doNo, result,
                   tfault, callbacks>>

\* triggerCallback: callback(req, resp, cW.req.Bytes(), cW.resp.Bytes()), that
\* is rawResponseCallback up to its send: the headers of the response from
\* respData, the rest of the body read from resp.Body through
\* connWrapper.Read, the headers of the request from reqData, the batch
Callback ==
    /\ TAlive /\ tpc = "check"
    /\ callbacks' = Append(callbacks,
                           Invocation(loc, reqs, cW, Len(callbacks) + 1))
    /\ \/ /\ HeaderEnd(cW.resp) = 0          \* panic("cant find header data")
          /\ fault' = "callback"
          /\ UNCHANGED <<cW, pending, prod, tpc>>
       \/ /\ HeaderEnd(cW.resp) # 0          \* ioutil.ReadAll fails: panic(err)
          /\ pending # <<>>
          /\ fault' = "callback"
          /\ UNCHANGED <<cW, pending, prod, tpc>>
       \/ /\ HeaderEnd(cW.resp) # 0
          /\ cW' = WrapperRead(cW, pending, Len(pending))
          /\ pending' = <<>>
          /\ IF HeaderEnd(cW.req) = 0        \* panic("cant find header data")
             THEN /\ fault' = "callback"
                  /\ UNCHANGED <<prod, tpc>>
             ELSE /\ prod' = [prod EXCEPT ![Client] =
                                [pc |-> "sending", calls |-> @.calls,
                                 batch |-> callbacks'[Len(callbacks')].batch]]
                  /\ tpc' = "send"
                  /\ fault' = fault
    /\ UNCHANGED <<cenv, limits, conns, cur, loc, reqs, hops, doNo, result, tfault>>

\* the send of rawResponseCallback has returned: cW.req.Reset();
\* cW.resp.Reset(); then checkRedirect tests the limit
CheckRedirect ==
    /\ TAlive /\ tpc = "send"
    /\ prod[Client].pc = "idle"
    /\ cW' = WrapperReset(cW)
    /\ IF TooManyRedirects(reqs)
       THEN /\ result' = "redirect-limit"
            /\ tpc' = "idle"
            /\ cur' = cur
       ELSE /\ cur' = loc
            /\ tpc' = "conn"
            /\ result' = result
    /\ UNCHANGED <<rvars, limits, conns, loc, reqs, pending, hops, doNo, tfault,
                   callbacks>>

\* connWrapper.Close: return c.c.Close(); what the connection had not handed
\* out is gone
CloseConn ==
    /\ TAlive /\ tpc \in {"idle", "conn"}
    /\ cW.c # 0 /\ conns[cW.c].open
    /\ conns' = [conns EXCEPT ![cW.c].open = FALSE]
    /\ pending' = <<>>
    /\ UNCHANGED <<rvars, limits, cW, tpc, cur, loc, reqs, hops, doNo, result, tfault,
                   callbacks>>

\* the client, the recordWriter its callback sends to, and Close
NextT ==
    \/ \E u \in URLs : StartDo(u)
    \/ Reuse
    \/ Dial
    \/ SendRequest
    \/ \E n \in 1 .. RespLen : ReadResponse(n)
    \/ Terminal
    \/ ReadBody
    \/ \E u \in URLs : Redirect(u)
    \/ Callback
    \/ CheckRedirect
    \/ CloseConn
    \/ Writer
    \/ \E p \in Producers : SendPanic(p)
    \/ CloseChan
    \/ CloseReturn

(* ------------------- specifications ------------------------------------- *)

Init == RInit /\ TInit /\ limits = ShortCalls

\* the rotator, its producers and Close
Spec == Init /\ [][Next]_vars

\* the rotator when Flush too can fail
SpecF == Init /\ [][NextF]_vars

\* the capturing client with its recorder, no other client beside it
InitT ==
    /\ RInit /\ TInit
    /\ settings = [Compression |-> "", WarcSize |-> BigThreshold]

SpecT == InitT /\ [][NextT]_vars

(* ------------------- helpers of the properties -------------------------- *)

FileIds == 1 .. Len(files)

Sealed(f) == ~f.open

\* the size of one batch of two exchange records
BatchSize == 2 * RecSize

Max(a, b) == IF a >= b THEN a ELSE b

Abs(a) == IF a >= 0 THEN a ELSE 0 - a

\* the exchange records of a sequence of records
RECURSIVE Exchanges(_)
Exchanges(recs) ==
    IF recs = <<>> THEN <<>>
    ELSE (IF Head(recs).type = "warcinfo" THEN <<>>
          ELSE <<[batch |-> Head(recs).batch, type |-> Head(recs).type]>>)
         \o Exchanges(Tail(recs))

\* the exchange records of files 1 .. n read in creation order
RECURSIVE ReadBack(_)
ReadBack(n) ==
    IF n = 0 THEN <<>> ELSE ReadBack(n - 1) \o Exchanges(files[n].recs)

\* what the accepted batches ask for: response, then request, batch by batch
RECURSIVE Expected(_)
Expected(ids) ==
    IF ids = <<>> THEN <<>>
    ELSE <<[batch |-> Head(ids), type |-> "response"],
           [batch |-> Head(ids), type |-> "request"]>> \o Expected(Tail(ids))

\* number of records of the accepted batches that WriteRecord has written
Progress ==
    IF recordBatch = NoBatch THEN 2 * Len(accepted)
    ELSE 2 * (Len(accepted) - 1) + (IF wpc = "frame" THEN idx ELSE idx - 1)

InfoCount(recs) == Cardinality({k \in 1 .. Len(recs) : recs[k].type = "warcinfo"})

\* recordWriter is creating file i and has not reached the end of the step
\* that writes its info record
BeingCreated(i) ==
    i = Len(files) /\ wpc \in {"newwriter", "info", "rot_writer", "rot_info"}

\* the invocations of the callback made by the current call of RoundTrip
ChainCallbacks == SelectSeq(callbacks, LAMBDA c : c.do = doNo)

(* ------------------- properties ----------------------------------------- *)

\* C1: every exchange record of every file carries as WARC-Warcinfo-ID the
\* identifier of the info record at the start of the file it is written in.
C1_WarcinfoIDOfSameFile ==
    \A i \in FileIds : \A k \in 1 .. Len(files[i].recs) :
        files[i].recs[k].type # "warcinfo" =>
            /\ files[i].recs[1].type = "warcinfo"
            /\ files[i].recs[k].warcinfoID = files[i].recs[1].id

\* C2: a file loses its .open marker only after it has been flushed, its
\* compression wrapper closed and its handle closed, and nothing is flushed,
\* written or closed on it afterwards.
C2_SealedAfterFlushAndClose ==
    \A i \in FileIds :
        Sealed(files[i]) => files[i].pending = {} /\ files[i].late = {}

\* C3: when RoundTrip has returned, the callback has been invoked exactly
\* once for every request of the chain, the terminal one included.
C3_OneCallbackPerHop ==
    (tpc = "idle" /\ result \in {"ok", "redirect-limit"}) =>
        Len(ChainCallbacks) = Len(reqs)

\* C4: every file holds exactly one info record, written before any exchange
\* record of the file (a file still being created holds none yet).
C4_InfoRecordFirst ==
    \A i \in FileIds :
        LET n == InfoCount(files[i].recs)
        IN  /\ n <= 1
            /\ files[i].recs # <<>> => files[i].recs[1].type = "warcinfo"
            /\ ~BeingCreated(i) => n = 1

\* a rotation has opened a second file and exchange records follow its info record
C4_Witness ==
    /\ Len(files) >= 2
    /\ Len(files[2].recs) >= 3
    /\ Sealed(files[2])

\* C5: the i-th file created has serial i: 1, 2, 3, ... with no gap or repeat.
C5_SerialsInOrder ==
    /\ \A i \in FileIds : files[i].serial = i
    /\ serial \in {Len(files), Len(files) + 1}

\* three files have been created
C5_Witness == Len(files) >= 3 /\ wpc = "done"

\* C6: the threshold is tested once per accepted batch, before the batch's
\* first record is written; the records of a batch all lie in one file; a
\* sealed file holds an info record and an even number of exchange records.
C6_CheckOncePerBatch ==
    /\ nChecks = Len(accepted) - (IF wpc = "check" THEN 1 ELSE 0)
    /\ wpc = "check" =>
          \A i \in FileIds : \A k \in 1 .. Len(files[i].recs) :
              files[i].recs[k].batch # recordBatch.id
    /\ \A i \in FileIds : \A k \in 1 .. Len(files[i].recs) :
          files[i].recs[k].type # "warcinfo" =>
              \A j \in FileIds \ {i} : \A l \in 1 .. Len(files[j].recs) :
                  files[j].recs[l].batch # files[i].recs[k].batch
    /\ \A i \in FileIds :
          Sealed(files[i]) => /\ files[i].recs[1].type = "warcinfo"
                              /\ (Len(files[i].recs) - 1) % 2 = 0

\* a file was sealed by a rotation with the batch that pushed it over the
\* threshold still in it, and the next batch went to the next file
C6_Witness ==
    /\ Len(files) >= 2
    /\ files[1].sealedBy = "rotation"
    /\ Len(files[1].recs) = 5
    /\ FileSize(files[1]) > settings.WarcSize
    /\ Len(files[2].recs) >= 3

\* C7 as stated: every sealed file's size is within one batch's size of the
\* threshold.
C7_SealedSizeNearThreshold ==
    \A i \in FileIds :
        Sealed(files[i]) =>
            Abs(FileSize(files[i]) - settings.WarcSize) <= BatchSize

\* C7 amended: a file sealed by rotation is larger than the threshold, and no
\* sealed file is larger than max(threshold, info record size) plus one batch.
C7_SealedSizeBounds ==
    \A i \in FileIds :
        Sealed(files[i]) =>
            /\ files[i].sealedBy = "rotation" =>
                  FileSize(files[i]) > settings.WarcSize
            /\ FileSize(files[i]) <=
                  Max(settings.WarcSize, InfoSize) + BatchSize

\* a file sealed by rotation whose info record alone was below the threshold
C7_Witness ==
    \E i \in FileIds :
        /\ files[i].sealedBy = "rotation"
        /\ InfoSize <= settings.WarcSize
        /\ FileSize(files[i]) > settings.WarcSize

\* C8: the exchange records read back from the files in creation order are
\* the records of the accepted batches, in acceptance order, response before
\* request, none missing, none twice.
C8_WrittenInAcceptanceOrder ==
    LET read == ReadBack(Len(files))
    IN  /\ Len(read) = Progress
        /\ read = SubSeq(Expected(accepted), 1, Progress)

\* two producers' batches were accepted in the order opposite to the one
\* they were built in, and everything has been written
C8_Witness ==
    /\ wpc = "done"
    /\ Len(accepted) >= 2
    /\ accepted[1][1] # accepted[2][1]
    /\ \E p \in Producers : accepted[1] = <<p, 1>> /\ p # 1
    /\ Len(files) >= 2

\* C9: unless an I/O operation of recordWriter failed, Close returns only
\* after recordWriter has finished, with every accepted batch written and
\* every file flushed, closed and renamed; and unless an I/O operation failed
\* or a callback gave up on the exchange it was given, a Close that is
\* waiting is never left with a process in which nothing can happen any more.
C9_CloseReturnsAfterSeal ==
    /\ (closer = "returned" /\ fault # "io") =>
          /\ wpc = "done"
          /\ ReadBack(Len(files)) = Expected(accepted)
          /\ \A i \in FileIds :
                Sealed(files[i]) /\ ~files[i].handle /\ files[i].flushed
    /\ (closer = "waiting" /\ fault \notin {"io", "callback"}) => ENABLED Next

\* C10: no chain makes more than 10 requests; the redirect check fails
\* exactly when 10 requests have been made, and then the callback has fired
\* for exactly those 10 hops, in order.
C10_RedirectLimit ==
    /\ Len(reqs) <= 10
    /\ tpc \in {"conn", "write"} => Len(reqs) < 10
    /\ result = "redirect-limit" =>
          /\ tpc = "idle"
          /\ Len(reqs) = 10
          /\ Len(ChainCallbacks) = 10
          /\ \A k \in 1 .. 10 :
                /\ ChainCallbacks[k].resp = k
                /\ ChainCallbacks[k].respURL = reqs[k]

\* a chain was stopped by the redirect limit
C10_Witness ==
    /\ result = "redirect-limit"
    /\ Len(accepted) = MaxRedirects
    /\ wpc = "recv"

\* C11: with compression on, every record of every file was written through
\* a wrapper that was open and wrote no other record, and the wrapper of a
\* record is closed before the next record is written to the file.
C11_OneFramePerRecord ==
    Compressed =>
      \A i \in FileIds : \A k \in 1 .. Len(files[i].recs) :
          /\ ~files[i].recs[k].frameClosed
          /\ \A j \in i .. Len(files) : \A l \in 1 .. Len(files[j].recs) :
                files[j].recs[l].frame = files[i].recs[k].frame
                    => (j = i /\ l = k)
          /\ (k < Len(files[i].recs) \/ wpc \in {"recv", "done"})
                => files[i].recs[k].frame \in files[i].closedFrames

\* a compressed run has rotated and written an info record and a batch to
\* the second file
C11_Witness ==
    /\ Compressed
    /\ wpc = "done"
    /\ Len(files) >= 2
    /\ Len(files[2].recs) >= 3

\* C12: the response record and the request record of every archived hop
\* carry as WARC-Target-URI the URL of the request that was sent for that hop
\* (the request whose bytes and response the callback was given).
C12_TargetURIOfOwnHop ==
    \A k \in 1 .. Len(callbacks) :
        \A j \in 1 .. Len(callbacks[k].batch.Records) :
            callbacks[k].batch.Records[j].uri = callbacks[k].respURL

\* C13: when a dial completes (it returns a connection, no dial error) while
\* the capture wrapper holds a connection that is still open (one to another
\* host, or one still busy with a response), the step is the fatal fault of
\* wrap, and the wrapper keeps the first connection.
C13_SecondAttachPanics ==
    [][(/\ TAlive /\ tpc = "conn"
        /\ cW.c # 0 /\ conns[cW.c].open
        /\ (conns[cW.c].host # HostOf(cur) \/ pending # <<>>)
        /\ <<tpc, tfault, conns, result>>' # <<tpc, tfault, conns, result>>
        /\ result' # "dial-error"
        /\ conns'[cW.c].open)
       => (tfault' = "wrap" /\ cW' = cW /\ conns' = conns)]_vars

\* wrap has panicked while the connection in the wrapper was still open
C13_Witness ==
    /\ tfault = "wrap"
    /\ cW.c # 0
    /\ conns[cW.c].open

\* the accepted batches that do not have both their records in a file
Unwritten ==
    {k \in 1 .. Len(accepted) :
        Len(SelectSeq(ReadBack(Len(files)),
                      LAMBDA r : r.batch = accepted[k])) < 2}

\* C14: a producer's send returns only in the step in which recordWriter
\* receives that very batch; at most one accepted batch is not fully written;
\* and while recordWriter is anywhere but at the receive, every producer that
\* is sending stays blocked in its send.
C14_SynchronousRendezvous ==
    /\ [](Cardinality(Unwritten) <= 1)
    /\ [][\A p \in Producers :
            prod[p].pc = "sending" =>
                /\ wpc # "recv" => prod'[p] = prod[p]
                /\ prod'[p].pc # "sending" =>
                      /\ recordBatch' = prod[p].batch
                      /\ accepted' = Append(accepted, prod[p].batch.id)
                      /\ wpc = "recv"]_vars

\* recordWriter has written the first record of the second batch it accepted
\* while another producer is blocked in its send
C14_Witness ==
    /\ Len(accepted) >= 2
    /\ wpc = "frame" /\ idx = 1
    /\ \E p \in Producers : prod[p].pc = "sending"

\* response first, request second, nothing else
TwoRecords(b) ==
    /\ Len(b.Records) = 2
    /\ b.Records[1].type = "response"
    /\ b.Records[2].type = "request"
    /\ b.Records[1].batch = b.id /\ b.Records[2].batch = b.id

\* C15: every batch built from an exchange holds exactly two records, the
\* response record and then the request record; every exchange record in a
\* file carries a WARC-Date that was set, the records of one batch carry the
\* same one, and it is the capture time of the batch they were written from.
C15_TwoRecordsOneDate ==
    /\ \A p \in Producers : prod[p].pc = "sending" => TwoRecords(prod[p].batch)
    /\ recordBatch # NoBatch => TwoRecords(recordBatch)
    /\ \A i \in FileIds : \A k \in 1 .. Len(files[i].recs) :
          files[i].recs[k].type # "warcinfo" =>
            /\ files[i].recs[k].date >= 1
            /\ (recordBatch # NoBatch /\ files[i].recs[k].batch = recordBatch.id)
                  => files[i].recs[k].date = recordBatch.CaptureTime
            /\ \A j \in i .. Len(files) : \A l \in 1 .. Len(files[j].recs) :
                  (/\ files[j].recs[l].type # "warcinfo"
                   /\ files[j].recs[l].batch = files[i].recs[k].batch)
                      => files[j].recs[l].date = files[i].recs[k].date

\* both records of a batch are in a file with the batch's capture time,
\* although another batch was captured before they were written
C15_Witness ==
    /\ wpc = "bflush"
    /\ recordBatch # NoBatch
    /\ clock > recordBatch.CaptureTime + 1
    /\ \E k \in 1 .. Len(files[warcFile].recs) - 1 :
          /\ files[warcFile].recs[k].type = "response"
          /\ files[warcFile].recs[k + 1].type = "request"
          /\ files[warcFile].recs[k].batch = recordBatch.id
          /\ files[warcFile].recs[k + 1].batch = recordBatch.id
          /\ files[warcFile].recs[k].date = recordBatch.CaptureTime
          /\ files[warcFile].recs[k + 1].date = recordBatch.CaptureTime

\* C16: recordWriter leaves its loop only when the channel has been closed;
\* no record of a batch that is still being sent when the channel is closed
\* is in any file; and when the channel is closed with such a batch, no I/O
\* operation fails and no callback gives up on the exchange it was given,
\* the run does not end before the last file is sealed.
C16_UnacceptedBatchLost ==
    /\ wpc \in {"fin_flush", "fin_wrapper", "fin_close", "fin_rename", "done"}
          => chClosed
    /\ \A i \in FileIds : files[i].sealedBy = "shutdown" => chClosed
    /\ \A p \in Producers :
          (chClosed /\ prod[p].pc = "sending") =>
              /\ \A i \in FileIds : \A k \in 1 .. Len(files[i].recs) :
                    files[i].recs[k].type = "warcinfo"
                        \/ files[i].recs[k].batch # prod[p].batch.id
              /\ (fault \notin {"io", "callback"} /\ ~ENABLED Next) =>
                    (files # <<>> /\ Sealed(files[Len(files)]))

\* an I/O operation of recordWriter has failed
IOFailed == fault = "io" \/ \E i \in FileIds : files[i].flushErr

\* C17: once an I/O operation of recordWriter has failed (creation, write,
\* flush or rename), recordWriter has stopped: no step after the failure adds
\* a record, creates or renames a file, accepts a batch or moves recordWriter
\* on.
C17_FailureAborts ==
    [][IOFailed => (/\ wpc' = wpc
                    /\ accepted' = accepted
                    /\ Len(files') = Len(files)
                    /\ \A i \in FileIds :
                          /\ files'[i].recs = files[i].recs
                          /\ files'[i].open = files[i].open)]_vars

\* C18: the bytes every invocation of the callback is given are bytes of the
\* hop it archives and of no other: the request of that hop, whole, and what
\* had been read of its response; so no two invocations are given the bytes
\* of the same hop.
C18_BuffersHoldOneHop ==
    \A k \in 1 .. Len(callbacks) :
        /\ callbacks[k].reqData = ReqBytes(callbacks[k].hop)
        /\ \E n \in 1 .. RespLen : \E crlf \in BOOLEAN :
              callbacks[k].respData =
                  SubSeq(RespBytes(callbacks[k].hop, crlf), 1, n)

\* C19: wrap panics only while the connection it wrapped before is still
\* open: a dial made before any other, or after the wrapped connection has
\* been closed, attaches its connection.
C19_PanicOnlyWhileOpen ==
    tfault = "wrap" => (cW.c # 0 /\ conns[cW.c].open)

\* C20: no producer sends, or is left sending, a batch on the channel once
\* Close has closed it, and no send ever panics on the closed channel.
C20_NoSendOnClosedQueue ==
    /\ fault # "send"
    /\ \A p \in Producers : ~(chClosed /\ prod[p].pc = "sending")

====
